---- MODULE Spec2Model ----
(***************************************************************************)
(* Model of the K-Means Hospitals dashboard (App.tsx, types.ts).           *)
(*                                                                         *)
(* Two specifications share the variables:                                 *)
(*   Spec        the App component: its seven useState cells, the form,    *)
(*               and the two asynchronous handlers runSimulation and       *)
(*               fetchPretrained with their await points;                  *)
(*   SpecDerive  the pure derivation layer applied to bounded inputs:      *)
(*               enrichment, useClusterSummary and CityMap.scalePoint.     *)
(*                                                                         *)
(* JavaScript values are tagged records: Null, Undefined, Str(s), Num(n).  *)
(* Real numbers are exact fractions [num, den] in lowest terms; NaN and    *)
(* Infinity are separate tagged values.  Math.hypot is the one irrational  *)
(* operation: it is rounded down to 1/HypotScale.                          *)
(***************************************************************************)
EXTENDS Integers, Sequences, FiniteSets

VARIABLES
    params,             \* useState<SimulationParams>            (line 188)
    gridSize,           \* useState(20)                          (line 193)
    result,             \* useState<EnrichedResult | null>       (line 194)
    loading,            \* useState(false)                       (line 195)
    error,              \* useState<string | null>               (line 196)
    pretrained,         \* useState<PretrainedModel | null>      (line 197)
    pretrainedLoading,  \* useState(false)                       (line 198)
    run,                \* the runSimulation call in flight: its await point and closure
    pre,                \* the fetchPretrained call in flight: its await point
    last,               \* history: what the most recent handler step was
    errorBy,            \* history: which handler wrote the current value of error
    runsPending,        \* history: the runSimulation calls begun and not yet settled
    resultFor,          \* history: the request body whose response result came from
    view                \* SpecDerive: what the last render computed

vars == <<params, gridSize, result, loading, error, pretrained,
          pretrainedLoading, run, pre, last, errorBy, runsPending, resultFor, view>>

----------------------------------------------------------------------------
(* JavaScript values *)

Null == [tag |-> "null"]
Undefined == [tag |-> "undefined"]
NaN == [tag |-> "NaN"]
Infinity == [tag |-> "Infinity"]
Str(s) == [tag |-> "str", val |-> s]
Num(n) == [tag |-> "num", val |-> n]
\* A JSON array of n objects, e.g. the detail list of a 422 response.
ObjArray(n) == [tag |-> "array", len |-> n]

\* The decimal digits of a natural number.
RECURSIVE Digits(_)
Digits(n) ==
    LET d == <<"0", "1", "2", "3", "4", "5", "6", "7", "8", "9">>
    IN  IF n < 10 THEN d[n + 1] ELSE Digits(n \div 10) \o d[(n % 10) + 1]

\* Array.prototype.join of n objects: "[object Object]" n times, with commas.
RECURSIVE JoinObjects(_)
JoinObjects(n) ==
    IF n = 0 THEN ""
    ELSE IF n = 1 THEN "[object Object]"
    ELSE JoinObjects(n - 1) \o ",[object Object]"

\* new Error(v).message: no message for undefined, else ToString(v).
JSString(v) ==
    CASE v.tag = "str" -> v.val
      [] v.tag = "undefined" -> ""
      [] v.tag = "null" -> "null"
      [] v.tag = "num" -> (IF v.val < 0 THEN "-" \o Digits(-v.val) ELSE Digits(v.val))
      [] v.tag = "array" -> JoinObjects(v.len)
      [] v.tag = "NaN" -> "NaN"
      [] v.tag = "Infinity" -> "Infinity"

\* a ?? b
Coalesce(a, b) == IF a = Null \/ a = Undefined THEN b ELSE a

\* a === b for a JavaScript value a and an array index b
StrictEqIndex(a, b) == a.tag = "num" /\ a.val = b

----------------------------------------------------------------------------
(* Exact arithmetic on fractions *)

RECURSIVE GCD(_, _)
GCD(a, b) == IF b = 0 THEN a ELSE GCD(b, a % b)

Abs(n) == IF n < 0 THEN -n ELSE n

\* The fraction n/d (d # 0) in lowest terms with a positive denominator.
Frac(n, d) ==
    LET g == GCD(Abs(n), Abs(d))
        s == IF d < 0 THEN -1 ELSE 1
    IN  [tag |-> "frac", num |-> s * (n \div g), den |-> s * (d \div g)]

FInt(n) == Frac(n, 1)
FAdd(a, b) == Frac(a.num * b.den + b.num * a.den, a.den * b.den)
FSub(a, b) == Frac(a.num * b.den - b.num * a.den, a.den * b.den)
FMul(a, b) == Frac(a.num * b.num, a.den * b.den)
FLeq(a, b) == a.num * b.den <= b.num * a.den
FMax(a, b) == IF FLeq(a, b) THEN b ELSE a

\* a / b as IEEE division decides the zero divisor: 0/0 is NaN, x/0 infinite.
FDiv(a, b) ==
    IF b.num = 0
    THEN (IF a.num = 0 THEN NaN ELSE Infinity)
    ELSE Frac(a.num * b.den, a.den * b.num)

HypotScale == 1000     \* Math.hypot is kept to 1/1000

\* floor(sqrt(n)) by bisection on lo..hi, where lo*lo <= n < (hi+1)*(hi+1).
RECURSIVE ISqrtIn(_, _, _)
ISqrtIn(n, lo, hi) ==
    IF lo >= hi THEN lo
    ELSE LET mid == (lo + hi + 1) \div 2
         IN  IF mid * mid <= n THEN ISqrtIn(n, mid, hi) ELSE ISqrtIn(n, lo, mid - 1)

\* (no root searched for exceeds 46340, whose square is the last below 2^31)
ISqrt(n) == ISqrtIn(n, 0, IF n < 46340 THEN n ELSE 46340)

\* Math.hypot(dx, dy), rounded down to a multiple of 1/HypotScale.
Hypot(dx, dy) ==
    LET sq == FAdd(FMul(dx, dx), FMul(dy, dy))
    IN  Frac(ISqrt((sq.num * HypotScale * HypotScale) \div sq.den), HypotScale)

----------------------------------------------------------------------------
(* Constants of App.tsx *)

viewBoxSize == 520
padding == 24
clusterPalette ==
    <<"#72efdd", "#ffbe0b", "#ff006e", "#00b4d8",
      "#9ef01a", "#f15bb5", "#f77f00", "#3a0ca3">>

InitialM == 20
InitialN == 80
InitialK == 4
InitialGridSize == 20

\* min / max of the three number inputs of the form
MinM == 5
MaxM == 100
MinN == 10
MaxN == 500
MinK == 1
MaxK == 12

RunGenericMessage == "No se pudo ejecutar K-Means."
RunUnknownMessage == "Error desconocido al llamar al API."
PreGenericMessage == "No se encontró un modelo preentrenado disponible."
PreUnknownMessage == "Error desconocido al cargar el modelo."

----------------------------------------------------------------------------
(* Derivation layer *)

\* clusterPalette[i % clusterPalette.length]: the remainder takes the sign of
\* i, and a negative, fractional or NaN position reads undefined.
PaletteColor(i) ==
    IF i.tag # "num" THEN Undefined
    ELSE IF i.val >= 0 THEN Str(clusterPalette[(i.val % Len(clusterPalette)) + 1])
    ELSE IF (-i.val) % Len(clusterPalette) = 0 THEN Str(clusterPalette[1])
    ELSE Undefined

\* scalePoint with the padding taken off the plot once, not twice.
scalePoint_OnePadding(grid, value) ==
    LET plotSize == FInt(viewBoxSize - padding)
    IN  FAdd(FInt(padding), FMul(FDiv(value, FMax(grid, FInt(1))), plotSize))

\* CityMap.scalePoint: padding + (value / Math.max(gridSize, 1)) * plotSize
scalePoint(grid, value) ==
    LET plotSize == FInt(viewBoxSize - padding * 2)
    IN  FAdd(FInt(padding), FMul(FDiv(value, FMax(grid, FInt(1))), plotSize))

\* array[idx] for a zero-based idx: undefined beyond the end
At(array, idx) == IF idx >= 0 /\ idx < Len(array) THEN array[idx + 1] ELSE Undefined

\* The enrichment of runSimulation: each neighborhood gets
\* cluster = payload.assignments[idx]; every other field is spread unchanged.
Enrich(payload) ==
    [tag |-> "result",
     hospitals |-> payload.hospitals,
     assignments |-> payload.assignments,
     neighborhoods |->
        [i \in 1..Len(payload.neighborhoods) |->
            [id |-> payload.neighborhoods[i].id,
             x |-> payload.neighborhoods[i].x,
             y |-> payload.neighborhoods[i].y,
             cluster |-> At(payload.assignments, i - 1)]]]

\* assigned.reduce((sum, n) => sum + Math.hypot(n.x - h.x, n.y - h.y), 0)
RECURSIVE SumDistance(_, _)
SumDistance(assigned, hospital) ==
    IF assigned = <<>> THEN FInt(0)
    ELSE FAdd(Hypot(FSub(Head(assigned).x, hospital.x),
                    FSub(Head(assigned).y, hospital.y)),
              SumDistance(Tail(assigned), hospital))

\* Assigned with the hospital's one-based position compared.
Assigned_OneBased(neighborhoods, idx) ==
    LET Test(n) == StrictEqIndex(n.cluster, idx + 1)
    IN  SelectSeq(neighborhoods, Test)

\* neighborhoods.filter(n => n.cluster === idx)
Assigned(neighborhoods, idx) ==
    LET Test(n) == StrictEqIndex(n.cluster, idx)
    IN  SelectSeq(neighborhoods, Test)

\* Divisor without the floor at 1.
Divisor_NoFloor(count) == count

\* the divisor of averageDistance: Math.max(assigned.length, 1)
Divisor(count) == IF count > 1 THEN count ELSE 1

\* One entry of useClusterSummary, for the hospital at zero-based idx.
SummaryEntry(res, idx) ==
    LET hospital == res.hospitals[idx + 1]
        assigned == Assigned(res.neighborhoods, idx)
    IN  [id |-> hospital.id,
         color |-> PaletteColor(Num(idx)),
         count |-> Len(assigned),
         averageDistance |->
            FDiv(SumDistance(assigned, hospital), FInt(Divisor(Len(assigned)))),
         hospital |-> hospital]

\* useClusterSummary: [] without a result, else one entry per hospital.
useClusterSummary(res) ==
    IF res = Null THEN <<>>
    ELSE [i \in 1..Len(res.hospitals) |-> SummaryEntry(res, i - 1)]

----------------------------------------------------------------------------
(* Inputs: what the user types and what the service answers *)

MaxHospitals == 2        \* hospitals in a response: 0..MaxHospitals
MaxNeighborhoods == 2    \* neighborhoods in a response: 0..MaxNeighborhoods
MaxExtent == 4           \* grid sizes projected: 0..MaxExtent and the form's own
Resolution == 2          \* projected values are multiples of 1/Resolution

SeqsUpTo(S, n) == UNION {[1..l -> S] : l \in 0..n}

HospitalAt(i) == [id |-> i, x |-> FInt(3 * (i - 1)), y |-> FInt(4 * (i - 1))]
NeighborhoodAt(i) == [id |-> i, x |-> FInt(3 * i - 2), y |-> FInt(4 * i - 3)]

\* An entry of assignments: any index up to MaxHospitals, which is never valid.
AssignmentValues == {Num(i) : i \in 0..MaxHospitals}

\* The SimulationResponse bodies: the arrays enrichment and the summary read.
Payloads ==
    {[hospitals |-> [i \in 1..h |-> HospitalAt(i)],
      neighborhoods |-> [i \in 1..n |-> NeighborhoodAt(i)],
      assignments |-> a] :
        h \in 0..MaxHospitals, n \in 0..MaxNeighborhoods,
        a \in SeqsUpTo(AssignmentValues, MaxNeighborhoods + 1)}

Payload(h, n, a) ==
    [hospitals |-> [i \in 1..h |-> HospitalAt(i)],
     neighborhoods |-> [i \in 1..n |-> NeighborhoodAt(i)],
     assignments |-> a]

\* The responses the App specification answers a run with: a well-formed one,
\* one with an out-of-range index, one with too few and one with too many
\* assignments.
SamplePayloads ==
    {Payload(2, 2, <<Num(0), Num(1)>>),
     Payload(1, 1, <<Num(1)>>),
     Payload(1, 2, <<Num(0)>>),
     Payload(1, 1, <<Num(0), Num(0)>>)}

JSError(message) == [isError |-> TRUE, message |-> message]
SyntaxError(message) == JSError(message)

\* What response.json() is rejected with for a body that is not JSON: a
\* SyntaxError whose text depends on the body and on the runtime.  These are
\* the texts of "<html>" under V8 10, V8 11 and Chrome 147, and of "" without
\* and with the prefix Chrome 147 puts before it.
JsonRejections ==
    {SyntaxError("Unexpected token < in JSON at position 0"),
     SyntaxError("Unexpected token '<', \"<html>\" is not valid JSON"),
     SyntaxError("Failed to execute 'json' on 'Response': Unexpected token '<', \"<html>\" is not valid JSON"),
     SyntaxError("Unexpected end of JSON input"),
     SyntaxError("Failed to execute 'json' on 'Response': Unexpected end of JSON input")}

\* A response body: not JSON at all, the JSON null, or a JSON object that may
\* carry a detail, a simulation response, or a pretrained model.
\* (the not-JSON body carries the error response.json() is rejected with)
InvalidBody(rejection) ==
    [kind |-> "invalid", detail |-> Undefined, sim |-> Undefined, model |-> Undefined,
     rejection |-> rejection]
NullBody == [kind |-> "null", detail |-> Undefined, sim |-> Undefined, model |-> Undefined]
ObjectBody(d, p, m) == [kind |-> "object", detail |-> d, sim |-> p, model |-> m]
PretrainedModel == [k |-> 1, hospitals |-> <<<<FInt(3), FInt(4)>>>>, description |-> "notebook"]

DetailValues ==
    {Undefined, Null, Str("bad k"), Num(5), ObjArray(0), ObjArray(1), ObjArray(2)}

RunBodies ==
    {InvalidBody(r) : r \in JsonRejections}
    \cup {NullBody}
    \cup {ObjectBody(d, Undefined, Undefined) : d \in DetailValues}
    \cup {ObjectBody(Undefined, p, Undefined) : p \in SamplePayloads}

PreBodies ==
    {InvalidBody(r) : r \in JsonRejections}
    \cup {NullBody, ObjectBody(Undefined, Undefined, PretrainedModel)}

\* What fetch() is rejected with: a TypeError, an instance of Error.
NetworkError == [isError |-> TRUE, message |-> "Failed to fetch"]
FetchRejections == {NetworkError}
NoError == [isError |-> FALSE, message |-> ""]

TypeErrorReading(of, property) ==
    JSError("Cannot read properties of " \o of \o " (reading '" \o property \o "')")

\* Number(event.target.value) for what the user types: an emptied field is 0.
InputValues == {FInt(0), FInt(10)}
InputNames == {"m", "n", "k"}

----------------------------------------------------------------------------
(* The App component *)

\* No call in flight.  A call in flight records its await point (pc), whether
\* the response was 2xx (ok), the params.m its closure holds (m) and, as
\* history, the state its handler may replace, as it was when the call began.
\* (sent is the request body, JSON.stringify(params), of a run call.)
IdleCall == [pc |-> "idle", ok |-> FALSE, m |-> FInt(0), before |-> Null, sent |-> Null]

Event(op) == [op |-> op, hadError |-> error # Null]

Init ==
    /\ params = [m |-> FInt(InitialM), n |-> FInt(InitialN), k |-> FInt(InitialK)]
    /\ gridSize = FInt(InitialGridSize)
    /\ result = Null
    /\ loading = FALSE
    /\ error = Null
    /\ pretrained = Null
    /\ pretrainedLoading = FALSE
    /\ run = IdleCall
    /\ pre = IdleCall
    /\ last = [op |-> "none", hadError |-> FALSE]
    /\ errorBy = "none"
    /\ runsPending = 0
    /\ resultFor = Null
    /\ view = [kind |-> "none"]

\* A number input accepts an integer (the default step) within [min, max].
InRange(v, lo, hi) == v.den = 1 /\ lo <= v.num /\ v.num <= hi

\* The form's constraint validation: the submit event is not dispatched
\* while an input is invalid.
FormValid(p) ==
    /\ InRange(p.m, MinM, MaxM)
    /\ InRange(p.n, MinN, MaxN)
    /\ InRange(p.k, MinK, MaxK)

\* handleInputChange that also dismisses the error banner.
handleInputChange_ClearsError(name, value) ==
    /\ params' = [params EXCEPT ![name] = value]
    /\ error' = Null
    /\ errorBy' = "none"
    /\ last' = Event("edit")
    /\ UNCHANGED <<gridSize, result, loading, pretrained,
                   pretrainedLoading, run, pre, view, runsPending, resultFor>>

\* handleInputChange: setParams(prev => ({...prev, [name]: Number(value)}))
handleInputChange(name, value) ==
    /\ params' = [params EXCEPT ![name] = value]
    /\ last' = Event("edit")
    /\ UNCHANGED <<gridSize, result, loading, error, pretrained,
                   pretrainedLoading, run, pre, errorBy, view, runsPending, resultFor>>

\* err instanceof Error ? err.message : fallback
CaughtMessage(err, fallback) == IF err.isError THEN err.message ELSE fallback

\* RunStart without setError(null).
RunStart_KeepsError ==
    /\ ~loading
    /\ FormValid(params)
    /\ loading' = TRUE
    /\ run' = [pc |-> "fetch", ok |-> FALSE, m |-> params.m,
               before |-> [result |-> result, gridSize |-> gridSize],
               sent |-> params]
    /\ runsPending' = runsPending + 1
    /\ last' = Event("runStart")
    /\ UNCHANGED <<params, gridSize, result, error, errorBy, pretrained,
                   pretrainedLoading, pre, view, resultFor>>

\* RunStart with the submit button left enabled while loading.
RunStart_NoGuard ==
    /\ FormValid(params)
    /\ loading' = TRUE
    /\ error' = Null
    /\ errorBy' = "none"
    /\ run' = [pc |-> "fetch", ok |-> FALSE, m |-> params.m,
               before |-> [result |-> result, gridSize |-> gridSize],
               sent |-> params]
    /\ runsPending' = runsPending + 1
    /\ last' = Event("runStart")
    /\ UNCHANGED <<params, gridSize, result, pretrained, pretrainedLoading,
                   pre, view, resultFor>>

\* runSimulation up to its first await: the submit button is disabled while
\* loading; setLoading(true); setError(null); fetch(..., params).
RunStart ==
    /\ ~loading
    /\ FormValid(params)
    /\ loading' = TRUE
    /\ error' = Null
    /\ errorBy' = "none"
    /\ run' = [pc |-> "fetch", ok |-> FALSE, m |-> params.m,
               before |-> [result |-> result, gridSize |-> gridSize],
               sent |-> params]
    /\ runsPending' = runsPending + 1
    /\ last' = Event("runStart")
    /\ UNCHANGED <<params, gridSize, result, pretrained, pretrainedLoading,
                   pre, view, resultFor>>

\* fetch() resolved with a response: the call now awaits response.json().
RunFetchResolve(ok) ==
    /\ run.pc = "fetch"
    /\ run' = [run EXCEPT !.pc = "body", !.ok = ok]
    /\ last' = Event("runFetched")
    /\ UNCHANGED <<params, gridSize, result, loading, error, pretrained,
                   pretrainedLoading, pre, errorBy, view, runsPending, resultFor>>

\* RunCatch that also discards the displayed result.
RunCatch_ClearsResult(err) ==
    /\ error' = Str(CaughtMessage(err, RunUnknownMessage))
    /\ errorBy' = "run"
    /\ result' = Null
    /\ loading' = FALSE
    /\ run' = IdleCall
    /\ runsPending' = runsPending - 1
    /\ last' = Event("runFail")
    /\ UNCHANGED <<params, gridSize, pretrained, pretrainedLoading, pre, view, resultFor>>

\* RunCatch without the finally block.
RunCatch_NoFinally(err) ==
    /\ error' = Str(CaughtMessage(err, RunUnknownMessage))
    /\ errorBy' = "run"
    /\ run' = IdleCall
    /\ runsPending' = runsPending - 1
    /\ last' = Event("runFail")
    /\ UNCHANGED <<params, gridSize, result, loading, pretrained,
                   pretrainedLoading, pre, view, resultFor>>

\* catch (err) { setError(message) } finally { setLoading(false) }
RunCatch(err) ==
    /\ error' = Str(CaughtMessage(err, RunUnknownMessage))
    /\ errorBy' = "run"
    /\ loading' = FALSE
    /\ run' = IdleCall
    /\ runsPending' = runsPending - 1
    /\ last' = Event("runFail")
    /\ UNCHANGED <<params, gridSize, result, pretrained, pretrainedLoading,
                   pre, view, resultFor>>

\* RunSucceed reading the params of the current render, not of its closure.
RunSucceed_CurrentParams(payload) ==
    /\ result' = Enrich(payload)
    /\ gridSize' = params.m
    /\ loading' = FALSE
    /\ run' = IdleCall
    /\ runsPending' = runsPending - 1
    /\ resultFor' = run.sent
    /\ last' = Event("runOk")
    /\ UNCHANGED <<params, error, pretrained, pretrainedLoading, pre, errorBy, view>>

\* setResult(enriched); setGridSize(params.m); finally { setLoading(false) }
\* params is the one the handler closed over when it was called.
RunSucceed(payload) ==
    /\ result' = Enrich(payload)
    /\ gridSize' = run.m
    /\ loading' = FALSE
    /\ run' = IdleCall
    /\ runsPending' = runsPending - 1
    /\ resultFor' = run.sent
    /\ last' = Event("runOk")
    /\ UNCHANGED <<params, error, pretrained, pretrainedLoading, pre, errorBy, view>>

\* fetch() rejected.
RunFetchReject(err) ==
    /\ run.pc = "fetch"
    /\ RunCatch(err)

\* payload.detail of `await response.json().catch(() => ({}))`
NotOkDetail(body) ==
    IF body.kind = "invalid" THEN Undefined ELSE body.detail

\* What the try block does once the body has settled: the error it throws, or
\* the payload it goes on to enrich.
RunOutcome(ok, body) ==
    IF ~ok
    THEN IF body.kind = "null"
         THEN [throws |-> TRUE, err |-> TypeErrorReading("null", "detail")]
         ELSE [throws |-> TRUE,
               err |-> JSError(JSString(Coalesce(NotOkDetail(body), Str(RunGenericMessage))))]
    ELSE IF body.kind = "invalid" THEN [throws |-> TRUE, err |-> body.rejection]
    ELSE IF body.kind = "null"
         THEN [throws |-> TRUE, err |-> TypeErrorReading("null", "neighborhoods")]
    ELSE IF body.sim = Undefined
         THEN [throws |-> TRUE, err |-> TypeErrorReading("undefined", "map")]
    ELSE [throws |-> FALSE, err |-> NoError]

\* response.json() settled.
RunBodySettle(body) ==
    /\ run.pc = "body"
    /\ IF RunOutcome(run.ok, body).throws
       THEN RunCatch(RunOutcome(run.ok, body).err)
       ELSE RunSucceed(body.sim)

\* fetchPretrained up to its await: the button is disabled while
\* pretrainedLoading; setPretrainedLoading(true); setError(null); fetch(...).
PreStart ==
    /\ ~pretrainedLoading
    /\ pretrainedLoading' = TRUE
    /\ error' = Null
    /\ errorBy' = "none"
    /\ pre' = [pc |-> "fetch", ok |-> FALSE, m |-> FInt(0),
               before |-> [pretrained |-> pretrained], sent |-> Null]
    /\ last' = Event("preStart")
    /\ UNCHANGED <<params, gridSize, result, loading, pretrained, run, view, runsPending, resultFor>>

\* PreCatch whose finally block resets the other request's flag.
PreCatch_WrongFlag(err) ==
    /\ error' = Str(CaughtMessage(err, PreUnknownMessage))
    /\ errorBy' = "pre"
    /\ loading' = FALSE
    /\ pre' = IdleCall
    /\ last' = Event("preFail")
    /\ UNCHANGED <<params, gridSize, result, pretrainedLoading, pretrained, run, view, runsPending, resultFor>>

\* catch (err) { setError(message) } finally { setPretrainedLoading(false) }
PreCatch(err) ==
    /\ error' = Str(CaughtMessage(err, PreUnknownMessage))
    /\ errorBy' = "pre"
    /\ pretrainedLoading' = FALSE
    /\ pre' = IdleCall
    /\ last' = Event("preFail")
    /\ UNCHANGED <<params, gridSize, result, loading, pretrained, run, view, runsPending, resultFor>>

\* setPretrained(payload); finally { setPretrainedLoading(false) }
PreSucceed(body) ==
    /\ pretrained' = (IF body.kind = "null" THEN Null ELSE body.model)
    /\ pretrainedLoading' = FALSE
    /\ pre' = IdleCall
    /\ last' = Event("preOk")
    /\ UNCHANGED <<params, gridSize, result, loading, error, run, errorBy, view, runsPending, resultFor>>

\* fetch() rejected.
PreFetchReject(err) ==
    /\ pre.pc = "fetch"
    /\ PreCatch(err)

\* fetch() resolved: a non-2xx response throws at once, a 2xx one awaits
\* response.json().
PreFetchResolve(ok) ==
    /\ pre.pc = "fetch"
    /\ IF ok
       THEN /\ pre' = [pre EXCEPT !.pc = "body", !.ok = TRUE]
            /\ last' = Event("preFetched")
            /\ UNCHANGED <<params, gridSize, result, loading, error, pretrained,
                           pretrainedLoading, run, errorBy, view, runsPending, resultFor>>
       ELSE PreCatch(JSError(PreGenericMessage))

\* response.json() settled.
PreBodySettle(body) ==
    /\ pre.pc = "body"
    /\ IF body.kind = "invalid" THEN PreCatch(body.rejection) ELSE PreSucceed(body)

Next ==
    \/ \E name \in InputNames, value \in InputValues : handleInputChange(name, value)
    \/ RunStart
    \/ \E ok \in BOOLEAN : RunFetchResolve(ok)
    \/ \E err \in FetchRejections : RunFetchReject(err)
    \/ \E body \in RunBodies : RunBodySettle(body)
    \/ PreStart
    \/ \E ok \in BOOLEAN : PreFetchResolve(ok)
    \/ \E err \in FetchRejections : PreFetchReject(err)
    \/ \E body \in PreBodies : PreBodySettle(body)

Spec == Init /\ [][Next]_vars

----------------------------------------------------------------------------
(* The derivation layer on bounded inputs *)

\* The grid sizes projected: small ones, 0 included, and the form's own.
Extents == (0..MaxExtent) \cup {InitialGridSize, MinM, MaxM}

\* The values projected with grid size g: multiples of 1/Resolution from just
\* below 0 to just above g.
ValuesFor(g) == {Frac(a, Resolution) : a \in (-1)..(g * Resolution + 1)}

\* A response is enriched and useClusterSummary renders the result.
DeriveSummary(payload) ==
    /\ view.kind = "none"
    /\ result' = Enrich(payload)
    /\ gridSize' = FInt(InitialGridSize)
    /\ view' = [kind |-> "summary", summary |-> useClusterSummary(result')]
    /\ UNCHANGED <<params, loading, error, pretrained, pretrainedLoading,
                   run, pre, last, errorBy, runsPending, resultFor>>

\* useClusterSummary renders the empty state.
DeriveEmpty ==
    /\ view.kind = "none"
    /\ result' = Null
    /\ gridSize' = FInt(InitialGridSize)
    /\ view' = [kind |-> "summary", summary |-> useClusterSummary(result')]
    /\ UNCHANGED <<params, loading, error, pretrained, pretrainedLoading,
                   run, pre, last, errorBy, runsPending, resultFor>>

\* CityMap projects one value with the grid size it was given.
DeriveProject(g, value) ==
    /\ view.kind = "none"
    /\ result' = Null
    /\ gridSize' = FInt(g)
    /\ view' = [kind |-> "point", value |-> value, px |-> scalePoint(gridSize', value)]
    /\ UNCHANGED <<params, loading, error, pretrained, pretrainedLoading,
                   run, pre, last, errorBy, runsPending, resultFor>>

NextDerive ==
    \/ \E payload \in Payloads : DeriveSummary(payload)
    \/ DeriveEmpty
    \/ \E g \in Extents : \E value \in ValuesFor(g) : DeriveProject(g, value)

SpecDerive == Init /\ [][NextDerive]_vars

----------------------------------------------------------------------------
(* Properties *)

RunOps == {"runStart", "runFetched", "runOk", "runFail"}
PreOps == {"preStart", "preFetched", "preOk", "preFail"}

\* C1: a failed request leaves prior state untouched.  When runSimulation
\* completes with a failure, result and gridSize are what they were when that
\* request was started, and the step changes nothing but error and loading;
\* when fetchPretrained completes with a failure, pretrained is what it was
\* when that request was started, and the step changes nothing but error and
\* pretrainedLoading.
C1_FailedRequestFrame ==
    [][ /\ last'.op = "runFail" =>
              /\ result' = run.before.result
              /\ gridSize' = run.before.gridSize
              /\ UNCHANGED <<params, result, gridSize, pretrained, pretrainedLoading>>
              /\ error' # Null /\ loading' = FALSE
        /\ last'.op = "preFail" =>
              /\ pretrained' = pre.before.pretrained
              /\ UNCHANGED <<params, result, gridSize, pretrained, loading>>
              /\ error' # Null /\ pretrainedLoading' = FALSE ]_vars

\* A run has failed while a result of an earlier run was displayed.
C1_Witness ==
    /\ last.op = "runFail"
    /\ result # Null
    /\ error # Null
    /\ ~loading

\* C2 as claimed: each request has its own error slot, so no step of
\* fetchPretrained changes an error that runSimulation wrote, and no step of
\* runSimulation changes an error that fetchPretrained wrote.
C2_OwnErrorSlot ==
    [][ /\ (last'.op \in PreOps /\ errorBy = "run") => error' = error
        /\ (last'.op \in RunOps /\ errorBy = "pre") => error' = error ]_vars

\* C2 as amended: each request has its own loading flag and its own data, and
\* the two share the one error slot.  No step of fetchPretrained changes
\* loading, result, gridSize or params; no step of runSimulation changes
\* pretrainedLoading or pretrained; either request's start sets error to
\* null and either request's failure sets error to its message.
C2_OwnFlagsSharedError ==
    [][ /\ last'.op \in PreOps => UNCHANGED <<loading, result, gridSize, params>>
        /\ last'.op \in RunOps => UNCHANGED <<pretrainedLoading, pretrained>>
        /\ last'.op \in {"runStart", "preStart"} => error' = Null
        /\ last'.op \in {"runFail", "preFail"} => error' # Null ]_vars

\* fetchPretrained has failed while a run request was in flight.
C2_Witness ==
    /\ last.op = "preFail"
    /\ loading
    /\ run.pc # "idle"
    /\ errorBy = "pre"

\* C3 as claimed: loading = true and error # null never hold together.
C3_NeverLoadingWithError == ~(loading /\ error # Null)

\* C3 as amended: loading = true and error # null hold together only when
\* the error was written by a failure of fetchPretrained that completed while
\* the run request was in flight; a run request's own start clears error and
\* its completion sets loading to false with any error it writes.
C3_LoadingErrorOnlyFromPretrained ==
    (loading /\ error # Null) => errorBy = "pre"

\* The run request is in flight and an error is displayed.
C3_Witness ==
    /\ loading
    /\ error # Null
    /\ last.op = "preFail"

\* What C4 claims a non-2xx run response surfaces: the detail string of a body
\* that parses and carries one, else the generic message.
ClaimedNotOkMessage(body) ==
    IF body.kind = "object" /\ body.detail.tag = "str"
    THEN body.detail.val
    ELSE RunGenericMessage

\* C4: when the run request gets a non-2xx response, error is exactly the
\* body's detail string when the body parses and carries one, and the generic
\* message otherwise; result is not replaced.
C4_DetailOrGeneric ==
    [][ \A body \in RunBodies :
          (run.pc = "body" /\ ~run.ok /\ RunBodySettle(body)) =>
              /\ error' = Str(ClaimedNotOkMessage(body))
              /\ result' = result ]_vars

\* C5 as claimed: error changes from a message to null only when a request
\* completes.
C5_ClearedOnlyByCompletion ==
    [][ (error # Null /\ error' = Null) =>
            last'.op \in {"runOk", "runFail", "preOk", "preFail"} ]_vars

\* C5 as amended: error changes from a message to null only when a request
\* is started (runSimulation or fetchPretrained); editing an input and the
\* completion of a request never change error from a message to null.
C5_ClearedOnlyByStart ==
    [][ (error # Null /\ error' = Null) =>
            last'.op \in {"runStart", "preStart"} ]_vars

\* A request was started while an error was displayed, and is still in
\* flight with the banner gone.
C5_Witness ==
    /\ last.op = "runStart"
    /\ last.hadError
    /\ error = Null
    /\ loading

\* C6: loading is true exactly while a run request has not resolved, and
\* every resolution of one sets loading to false and ends in Ready (a result
\* stored) or Failed (an error stored).
C6_LoadingUntilResolved ==
    /\ [](loading <=> run.pc # "idle")
    /\ [][ (run.pc # "idle" /\ run'.pc = "idle") =>
              /\ loading' = FALSE
              /\ \/ last'.op = "runOk" /\ result' # Null
                 \/ last'.op = "runFail" /\ error' # Null ]_vars

\* A run request has resolved with a decode failure of a 2xx body.
C6_Witness ==
    /\ last.op = "runFail"
    /\ error \in {Str(r.message) : r \in JsonRejections}
    /\ ~loading
    /\ run.pc = "idle"

\* The cluster of every enriched neighborhood is a valid hospital index.
AllAssignmentsValid(res) ==
    \A j \in 1..Len(res.neighborhoods) :
        /\ res.neighborhoods[j].cluster.tag = "num"
        /\ res.neighborhoods[j].cluster.val \in 0..(Len(res.hospitals) - 1)

\* The zero-based positions of the neighborhoods whose cluster is idx.
MembersOf(res, idx) ==
    {j \in 1..Len(res.neighborhoods) : res.neighborhoods[j].cluster = Num(idx)}

RECURSIVE SumCounts(_)
SumCounts(summary) ==
    IF summary = <<>> THEN 0 ELSE Head(summary).count + SumCounts(Tail(summary))

\* C7: the summary has one entry per hospital, in hospital order, entry idx
\* counting the enriched neighborhoods whose cluster equals idx; when every
\* neighborhood's assignment is a valid hospital index the counts sum to the
\* number of enriched neighborhoods.
C7_SummaryCounts ==
    (view.kind = "summary" /\ result # Null) =>
        /\ Len(view.summary) = Len(result.hospitals)
        /\ \A i \in 1..Len(result.hospitals) :
              /\ view.summary[i].hospital = result.hospitals[i]
              /\ view.summary[i].id = result.hospitals[i].id
              /\ view.summary[i].count = Cardinality(MembersOf(result, i - 1))
        /\ AllAssignmentsValid(result) =>
              SumCounts(view.summary) = Len(result.neighborhoods)

\* Two hospitals with one neighborhood each.
C7_Witness ==
    /\ view.kind = "summary"
    /\ result # Null
    /\ Len(result.hospitals) = 2
    /\ Len(result.neighborhoods) = 2
    /\ AllAssignmentsValid(result)
    /\ view.summary[1].count = 1
    /\ view.summary[2].count = 1

\* C8: a stored result never carries a neighborhood whose cluster is defined
\* and not a valid hospital index, and never comes from an assignments array
\* with entries no neighborhood received.
C8_NoSilentMisassign ==
    result # Null =>
        /\ \A j \in 1..Len(result.neighborhoods) :
              \/ result.neighborhoods[j].cluster = Undefined
              \/ /\ result.neighborhoods[j].cluster.tag = "num"
                 /\ result.neighborhoods[j].cluster.val \in 0..(Len(result.hospitals) - 1)
        /\ Len(result.assignments) <= Len(result.neighborhoods)

\* C9: a hospital with no assigned neighborhood has count = 0 and
\* averageDistance = 0 in the summary, also when the result has no
\* neighborhoods at all.
C9_EmptyClusterAverageZero ==
    (view.kind = "summary" /\ result # Null) =>
        \A i \in 1..Len(result.hospitals) :
            MembersOf(result, i - 1) = {} =>
                /\ view.summary[i].count = 0
                /\ view.summary[i].averageDistance = FInt(0)

\* Two neighborhoods, both assigned to the first of two hospitals.
C9_Witness ==
    /\ view.kind = "summary"
    /\ result # Null
    /\ Len(result.hospitals) = 2
    /\ Len(result.neighborhoods) = 2
    /\ MembersOf(result, 1) = {}
    /\ view.summary[1].count = 2
    /\ view.summary[2].averageDistance = FInt(0)

\* C10: for a grid size > 0 and a value in [0, gridSize], scalePoint(value)
\* lies in [padding, viewBoxSize - padding], with 0 projected to padding and
\* gridSize to viewBoxSize - padding.
C10_ProjectionInsideViewport ==
    (/\ view.kind = "point"
     /\ gridSize.num > 0
     /\ FLeq(FInt(0), view.value)
     /\ FLeq(view.value, gridSize)) =>
        /\ FLeq(FInt(padding), view.px)
        /\ FLeq(view.px, FInt(viewBoxSize - padding))
        /\ view.value = FInt(0) => view.px = FInt(padding)
        /\ view.value = gridSize => view.px = FInt(viewBoxSize - padding)

\* The far edge of the smallest grid the form accepts is projected.
C10_Witness ==
    /\ view.kind = "point"
    /\ gridSize = FInt(MinM)
    /\ view.value = gridSize
    /\ view.px = FInt(viewBoxSize - padding)

\* C11: at most one run-simulation request is in flight at any time and
\* loading is true exactly when one is, so no submission starts before the
\* previous one has resolved and no completion sets loading to false while
\* another run request is pending.
C11_SingleRunInFlight ==
    /\ runsPending \in {0, 1}
    /\ loading <=> runsPending = 1
    /\ runsPending = 1 <=> run.pc # "idle"

\* A second submission is in flight, started after the first had resolved
\* with a result.
C11_Witness ==
    /\ last.op = "runStart"
    /\ result # Null
    /\ loading
    /\ runsPending = 1

\* C12: whenever result is non-null, gridSize is the m submitted in the
\* request whose response produced result, whatever the user has typed since
\* and whatever later requests did; and a step changes result or gridSize
\* only by completing a run successfully, which sets both.
C12_GridSizeOfDisplayedResult ==
    /\ [](result # Null => (resultFor # Null /\ gridSize = resultFor.m))
    /\ [][ (result' # result \/ gridSize' # gridSize) =>
              /\ last'.op = "runOk"
              /\ result' # Null
              /\ gridSize' = run.sent.m ]_vars

\* A run has succeeded after the user changed m while it was in flight: the
\* map is drawn with the m submitted, not the m now in the form.
C12_Witness ==
    /\ last.op = "runOk"
    /\ result # Null
    /\ params.m # gridSize
    /\ gridSize = resultFor.m

====
